---- MODULE Spec2Model ----
(***************************************************************************)
(* A model of cleo's table widget (src/cleo/ui/table.py): the style        *)
(* registry, the builder calls of Table, and render() with its row         *)
(* normalizer, width resolver and drawer.                                  *)
(*                                                                         *)
(* Text is a sequence of tokens.  A token is one visible character, the    *)
(* line break "\n", or one markup tag; a tag has a raw length (the number  *)
(* of characters Python's len() counts) and no visible width.              *)
(* Column indexes and row keys are 0-based, as in the source; a sequence   *)
(* is indexed at key + 1.                                                  *)
(***************************************************************************)
EXTENDS Integers, Sequences, FiniteSets, TLC

VARIABLES
    styles,   \* Table._styles (class attribute): NoStyles, or name -> reference
    heap,     \* the TableStyle objects: reference -> style value, or Free
    tables,   \* the Table objects: table id -> fields, or NoTable
    out,      \* the lines the most recent call wrote to the output sink
    call,     \* the most recent call: operation, table, argument, exception
    frame     \* locals of the most recent render(): rows (lines 173, 176)

vars == <<styles, heap, tables, out, call, frame>>

----------------------------------------------------------------------------
(* Bounds of the model. *)

MaxRows == 2

----------------------------------------------------------------------------
(* Text. *)

NL == "\n"
OpenTag == "<fg=default;bg=default>"
CloseTag == "</>"
InfoOpen == "<info>"
InfoClose == "</info>"
TitleOpen == "<fg=black;bg=white;options=bold>"
CellTagOpen == "<<fg=default;bg=default>>"

OpenTags == {OpenTag, InfoOpen, TitleOpen, CellTagOpen}
CloseTags == {CloseTag, InfoClose}
Tags == OpenTags \cup CloseTags

\* len() of one token: the characters of a tag, 1 for anything else.
TokenLen(k) ==
    CASE k = OpenTag -> 23
      [] k = CloseTag -> 3
      [] k = InfoOpen -> 6
      [] k = InfoClose -> 7
      [] k = TitleOpen -> 32
      [] k = CellTagOpen -> 25
      [] OTHER -> 1

RECURSIVE len(_)
len(text) ==
    IF text = <<>> THEN 0 ELSE TokenLen(Head(text)) + len(Tail(text))

\* Output.remove_format: the text without its markup tags.
remove_format(text) == SelectSeq(text, LAMBDA k : k \notin Tags)

contains(text, k) == \E i \in 1..Len(text) : text[i] = k

str_count(text, k) == Cardinality({i \in 1..Len(text) : text[i] = k})

RECURSIVE Repeat(_, _)
Repeat(text, n) == IF n <= 0 THEN <<>> ELSE text \o Repeat(text, n - 1)

RECURSIVE Concat(_)
Concat(texts) == IF texts = <<>> THEN <<>> ELSE Head(texts) \o Concat(Tail(texts))

\* str.split("\n"): the pieces between line breaks (k breaks give k+1 pieces).
RECURSIVE split(_)
split(text) ==
    IF ~contains(text, NL) THEN <<text>>
    ELSE LET i == CHOOSE j \in 1..Len(text) :
                      text[j] = NL /\ \A m \in 1..(j - 1) : text[m] # NL
         IN  <<SubSeq(text, 1, i - 1)>> \o split(SubSeq(text, i + 1, Len(text)))

\* "\n".join(pieces)
RECURSIVE join(_)
join(pieces) ==
    IF Len(pieces) = 1 THEN pieces[1]
    ELSE pieces[1] \o <<NL>> \o join(Tail(pieces))

\* str.replace("\n", "<fg=default;bg=default>\n</>")
RECURSIVE replace_breaks(_)
replace_breaks(text) ==
    IF text = <<>> THEN <<>>
    ELSE (IF Head(text) = NL THEN <<OpenTag, NL, CloseTag>> ELSE <<Head(text)>>)
         \o replace_breaks(Tail(text))

\* Formatter.escape_trailing_backslash: trailing backslashes become NUL
\* characters, NULs already in the text are dropped.
RECURSIVE rstrip_backslash(_)
rstrip_backslash(text) ==
    IF text # <<>> /\ text[Len(text)] = "\\"
    THEN rstrip_backslash(SubSeq(text, 1, Len(text) - 1))
    ELSE text

escape_trailing_backslash(text) ==
    IF text # <<>> /\ text[Len(text)] = "\\"
    THEN LET stripped == SelectSeq(rstrip_backslash(text), LAMBDA k : k # "NUL")
         IN  stripped \o Repeat(<<"NUL">>, Len(text) - Len(rstrip_backslash(text)))
    ELSE text

\* Formatter.format_and_wrap: a hard wrap, a line break after every `width`
\* characters of a line, no break at the very end.
RECURSIVE wrap_line(_, _)
wrap_line(text, width) ==
    IF width <= 0 \/ Len(text) <= width THEN text
    ELSE SubSeq(text, 1, width) \o <<NL>>
         \o wrap_line(SubSeq(text, width + 1, Len(text)), width)

format_and_wrap(text, width) ==
    LET pieces == split(text)
    IN  join([i \in 1..Len(pieces) |-> wrap_line(pieces[i], width)])

Max(a, b) == IF a >= b THEN a ELSE b
Min(a, b) == IF a <= b THEN a ELSE b

\* max() of a non-empty list of integers
RECURSIVE max(_)
max(ns) == IF Len(ns) = 1 THEN ns[1] ELSE Max(ns[1], max(Tail(ns)))

\* math.ceil(a / b) for a >= 0, b >= 1
ceil_div(a, b) == (a + b - 1) \div b

----------------------------------------------------------------------------
(* Formats: a template "pre{}post". *)

Format(pre, post) == [pre |-> pre, post |-> post]

\* template.format(text)
format(f, text) == f.pre \o text \o f.post

\* len(template), the two characters of "{}" included
format_len(f) == len(f.pre) + 2 + len(f.post)

----------------------------------------------------------------------------
(* Exceptions. *)

NoExc == [type |-> "None", arg |-> ""]
ValueError(name) == [type |-> "ValueError", arg |-> name]
IndexError == [type |-> "IndexError", arg |-> ""]
KeyError == [type |-> "KeyError", arg |-> ""]
TypeError == [type |-> "TypeError", arg |-> ""]

----------------------------------------------------------------------------
(* Cells and rows.  A plain str, a TableCell, a TableSeparator (a TableCell *)
(* with empty text) and None are one record shape; TableCell is a str, so   *)
(* len(), "in", split() act on its text.                                    *)

\* TableCell.style = None
NoCellStyle == [set |-> FALSE, align |-> "left", cell_format |-> <<>>]

\* TableCellStyle(align = ..., cell_format = ...); cell_format <<>> is None
TableCellStyle(align, cell_format) ==
    [set |-> TRUE, align |-> align, cell_format |-> cell_format]

Str(text) ==
    [kind |-> "str", text |-> text, colspan |-> 1, rowspan |-> 1,
     style |-> NoCellStyle]

TableCell(text, rowspan, colspan, style) ==
    [kind |-> "cell", text |-> text, colspan |-> colspan, rowspan |-> rowspan,
     style |-> style]

TableSeparator ==
    [kind |-> "sep", text |-> <<>>, colspan |-> 1, rowspan |-> 1,
     style |-> NoCellStyle]

NoneCell ==
    [kind |-> "none", text |-> <<>>, colspan |-> 1, rowspan |-> 1,
     style |-> NoCellStyle]

\* isinstance(cell, TableCell)
is_TableCell(cell) == cell.kind \in {"cell", "sep"}

\* A row of the table: a list of cells, or a TableSeparator.
ListRow(cells) == [kind |-> "list", cells |-> cells]
SeparatorRow == [kind |-> "sep", cells |-> <<>>]

----------------------------------------------------------------------------
(* TableStyle (cleo/ui/table_style.py): the fields render() reads, with the *)
(* defaults of a new TableStyle().  A glyph is a text, "" is <<>>.          *)

TableStyle ==
    [padding_char |-> " ",
     horizontal_outside_border_char |-> <<"-">>,
     horizontal_inside_border_char |-> <<"-">>,
     vertical_outside_border_char |-> <<"|">>,
     vertical_inside_border_char |-> <<"|">>,
     crossing_chars |-> [i \in 1..12 |-> <<"+">>],
     cell_header_format |-> Format(<<InfoOpen>>, <<InfoClose>>),
     cell_row_format |-> Format(<<>>, <<>>),
     cell_row_content_format |-> Format(<<" ">>, <<" ">>),
     border_format |-> Format(<<>>, <<>>),
     header_title_format |-> Format(<<TitleOpen, " ">>, <<" ", CloseTag>>),
     footer_title_format |-> Format(<<TitleOpen, " ">>, <<" ", CloseTag>>),
     pad_type |-> "right"]

set_horizontal_border_chars(s, outside, inside) ==
    [s EXCEPT !.horizontal_outside_border_char = outside,
              !.horizontal_inside_border_char = inside]

set_vertical_border_chars(s, outside, inside) ==
    [s EXCEPT !.vertical_outside_border_char = outside,
              !.vertical_inside_border_char = inside]

\* set_crossing_chars(cross, top_left, ..., mid_left, top_left_bottom,
\* top_mid_bottom, top_right_bottom), all twelve given
set_crossing_chars(s, chars) == [s EXCEPT !.crossing_chars = chars]

\* the nine-argument call: top_left_bottom, top_mid_bottom, top_right_bottom
\* default to mid_left, cross, mid_right
set_crossing_chars9(s, chars) ==
    set_crossing_chars(s, chars \o <<chars[9], chars[1], chars[5]>>)

set_default_crossing_char(s, char) ==
    set_crossing_chars9(s, [i \in 1..9 |-> char])

set_cell_row_content_format(s, f) == [s EXCEPT !.cell_row_content_format = f]

\* TableStyle.border_chars: [horizontal outside, vertical outside,
\* horizontal inside, vertical inside], 0-based
border_chars(s, i) ==
    CASE i = 0 -> s.horizontal_outside_border_char
      [] i = 1 -> s.vertical_outside_border_char
      [] i = 2 -> s.horizontal_inside_border_char
      [] i = 3 -> s.vertical_inside_border_char

\* TableStyle.crossing_chars[i], 0-based
crossing_chars(s, i) == s.crossing_chars[i + 1]

\* TableStyle.crossing_char
crossing_char(s) == s.crossing_chars[1]

\* str.ljust / str.rjust / str.center on the raw length, as Python pads
pad_text(pad_type, string, length, char) ==
    LET marg == length - len(string)
        left == (marg \div 2) + (IF marg % 2 = 1 /\ length % 2 = 1 THEN 1 ELSE 0)
    IN  IF marg <= 0 THEN string
        ELSE CASE pad_type = "right" -> string \o Repeat(<<char>>, marg)
               [] pad_type = "left" -> Repeat(<<char>>, marg) \o string
               [] OTHER -> Repeat(<<char>>, left) \o string
                           \o Repeat(<<char>>, marg - left)

\* TableStyle.pad
pad(s, string, length, char) == pad_text(s.pad_type, string, length, char)

\* TableCellStyle.pad
cell_style_pad(cs, string, length, char) ==
    pad_text(CASE cs.align = "left" -> "right"
               [] cs.align = "right" -> "left"
               [] OTHER -> "center",
             string, length, char)

----------------------------------------------------------------------------
(* The style registry: Table._styles, _init_styles, _resolve_style. *)

\* Table._styles = None
NoStyles == <<>>

Borderless ==
    set_default_crossing_char(
        set_vertical_border_chars(
            set_horizontal_border_chars(TableStyle, <<"=">>, <<"=">>),
            <<" ">>, <<" ">>),
        <<" ">>)

Compact ==
    set_cell_row_content_format(
        set_default_crossing_char(
            set_vertical_border_chars(
                set_horizontal_border_chars(TableStyle, <<>>, <<>>),
                <<" ">>, <<" ">>),
            <<>>),
        Format(<<>>, <<>>))

Box ==
    set_crossing_chars9(
        set_vertical_border_chars(
            set_horizontal_border_chars(TableStyle, <<"u2500">>, <<"u2500">>),
            <<"u2502">>, <<"u2502">>),
        << <<"u253C">>, <<"u250C">>, <<"u252C">>, <<"u2510">>, <<"u2524">>,
           <<"u2518">>, <<"u2534">>, <<"u2514">>, <<"u251C">> >>)

BoxDouble ==
    set_crossing_chars(
        set_vertical_border_chars(
            set_horizontal_border_chars(TableStyle, <<"u2550">>, <<"u2500">>),
            <<"u2551">>, <<"u2502">>),
        << <<"u253C">>, <<"u2554">>, <<"u2564">>, <<"u2557">>, <<"u2562">>,
           <<"u255D">>, <<"u2567">>, <<"u255A">>, <<"u255F">>, <<"u2560">>,
           <<"u256A">>, <<"u2563">> >>)

\* the templates _init_styles registers, by name
Templates ==
    [n \in {"default", "borderless", "compact", "box", "box-double"} |->
        CASE n = "default" -> TableStyle
          [] n = "borderless" -> Borderless
          [] n = "compact" -> Compact
          [] n = "box" -> Box
          [] n = "box-double" -> BoxDouble]

\* the reference _init_styles's dict literal gives each template
TemplateRef ==
    [n \in DOMAIN Templates |->
        CASE n = "default" -> 1
          [] n = "borderless" -> 2
          [] n = "compact" -> 3
          [] n = "box" -> 4
          [] n = "box-double" -> 5]

\* a new object's reference: the least one not in use
NewRef(h) == CHOOSE r \in 1..(Cardinality(DOMAIN h) + 1) :
                 r \notin DOMAIN h /\ \A q \in 1..(r - 1) : q \in DOMAIN h

\* _init_styles on the class state [styles, heap]: a no-op once initialised
init_styles(cls) ==
    IF cls.styles # NoStyles THEN cls
    ELSE [styles |-> TemplateRef,
          heap |-> [r \in {TemplateRef[n] : n \in DOMAIN Templates} |->
                       Templates[CHOOSE n \in DOMAIN Templates : TemplateRef[n] = r]]]

\* deepcopy(cls._styles[name]): a new object with the template's value
deepcopy(h, ref) ==
    [ref |-> NewRef(h), heap |-> (NewRef(h) :> h[ref]) @@ h]

\* an unknown name resolves to a copy of the default style
resolve_style_lenient(cls, name) ==
    LET copy == deepcopy(cls.heap, cls.styles[IF name \in DOMAIN cls.styles
                                              THEN name ELSE "default"])
    IN  [ref |-> copy.ref, heap |-> copy.heap, exc |-> NoExc]

\* the registered template itself is returned, not a copy of it
resolve_style_shared(cls, name) ==
    IF name \in DOMAIN cls.styles
    THEN [ref |-> cls.styles[name], heap |-> cls.heap, exc |-> NoExc]
    ELSE [ref |-> 0, heap |-> cls.heap, exc |-> ValueError(name)]

\* _resolve_style(name) for a str name: [ref, heap, exc]
resolve_style(cls, name) ==
    IF name \in DOMAIN cls.styles
    THEN LET copy == deepcopy(cls.heap, cls.styles[name])
         IN  [ref |-> copy.ref, heap |-> copy.heap, exc |-> NoExc]
    ELSE [ref |-> 0, heap |-> cls.heap, exc |-> ValueError(name)]

----------------------------------------------------------------------------
(* The row normalizer.  The local list `rows` of render() holds the row     *)
(* lists of self._headers and self._rows themselves (list concatenation     *)
(* copies the outer list only): src names the table's row a local row is,   *)
(* so that what the normalizer writes into it is written to the table.      *)

NewSrc == [from |-> "new", at |-> 0]
LocalRow(kind, cells, src) == [kind |-> kind, cells |-> cells, src |-> src]

\* _get_number_of_columns
get_number_of_columns(cells) ==
    LET RECURSIVE extra(_)
        extra(i) ==
            IF i > Len(cells) THEN 0
            ELSE (IF is_TableCell(cells[i]) THEN cells[i].colspan - 1 ELSE 0)
                 + extra(i + 1)
    IN  Len(cells) + extra(1)

\* _calculate_number_of_columns
calculate_number_of_columns(rows) ==
    max(<<0>> \o [i \in 1..Len(rows) |->
                     IF rows[i].kind = "list"
                     THEN get_number_of_columns(rows[i].cells) ELSE 0])

\* the copy keeps the text of the cells
copy_row_unblanked(cells) == cells

\* _copy_row: a blank row, a TableCell keeping its colspan
copy_row(cells) ==
    [i \in 1..Len(cells) |->
        IF is_TableCell(cells[i])
        THEN TableCell(<<>>, 1, cells[i].colspan, NoCellStyle)
        ELSE Str(<<>>)]

\* no "" is added after a cell that spans several columns
fill_cells_unfilled(cells) == cells

\* _fill_cells: "" after every cell for each further column it spans
fill_cells(cells) ==
    Concat([i \in 1..Len(cells) |->
               <<cells[i]>> \o
               (IF is_TableCell(cells[i]) /\ cells[i].colspan > 1
                THEN [j \in 1..(cells[i].colspan - 1) |-> Str(<<>>)]
                ELSE <<>>)])

\* list.insert(index, x)
list_insert(list, index, x) ==
    LET at == Min(index, Len(list))
    IN  SubSeq(list, 1, at) \o <<x>> \o SubSeq(list, at + 1, Len(list))

\* _fill_next_rows, lines 477-517: the cells of rows[line] with rowspan > 1.
\* unmerged[d] is unmerged_rows[line + d], its (column, cell) items in order.
RECURSIVE collect_rowspans(_, _, _)
collect_rowspans(cells, column, unmerged) ==
    IF column >= Len(cells) THEN [cells |-> cells, unmerged |-> unmerged]
    ELSE LET cell == cells[column + 1]
         IN  IF ~(is_TableCell(cell) /\ cell.rowspan > 1)
             THEN collect_rowspans(cells, column + 1, unmerged)
             ELSE LET broken == contains(cell.text, NL)
                      lines == IF broken THEN split(replace_breaks(cell.text))
                               ELSE <<cell.text>>
                      nb_lines == IF broken /\ Len(lines) > cell.rowspan - 1
                                  THEN str_count(cell.text, NL)
                                  ELSE cell.rowspan - 1
                      cells2 == IF broken
                                THEN [cells EXCEPT ![column + 1] =
                                         TableCell(lines[1], 1, cell.colspan, cell.style)]
                                ELSE cells
                      value(d) == IF d < Len(lines) THEN lines[d + 1] ELSE <<>>
                      unmerged2 ==
                          [d \in 1..Max(nb_lines, Len(unmerged)) |->
                              (IF d <= Len(unmerged) THEN unmerged[d] ELSE <<>>)
                              \o (IF d <= nb_lines
                                  THEN << <<column,
                                            TableCell(value(d), 1, cell.colspan,
                                                      cell.style)>> >>
                                  ELSE <<>>)]
                  IN  collect_rowspans(cells2, column + 1, unmerged2)

\* the cells are put at the end of the row, not at their columns
insert_cells_appended(cells, items, i) ==
    cells \o [j \in 1..Len(items) |-> items[j][2]]

\* lines 535-536: rows[key].insert(cell_key, cell) for every item
RECURSIVE insert_cells(_, _, _)
insert_cells(cells, items, i) ==
    IF i > Len(items) THEN cells
    ELSE insert_cells(list_insert(cells, items[i][1], items[i][2]), items, i + 1)

\* lines 539-541: row[column] = cell for every item with a non-empty cell
RECURSIVE overlay_cells(_, _, _)
overlay_cells(cells, items, i) ==
    IF i > Len(items) THEN [cells |-> cells, exc |-> NoExc]
    ELSE IF len(items[i][2].text) = 0 THEN overlay_cells(cells, items, i + 1)
    ELSE IF items[i][1] >= Len(cells) THEN [cells |-> cells, exc |-> IndexError]
    ELSE overlay_cells([cells EXCEPT ![items[i][1] + 1] = items[i][2]], items, i + 1)

\* lines 519-543: merge each unmerged row into the row at its key, or insert
\* it as a new row there
RECURSIVE merge_unmerged_rows(_, _, _, _, _)
merge_unmerged_rows(rows, line, unmerged, d, number_of_columns) ==
    IF d > Len(unmerged) THEN [rows |-> rows, exc |-> NoExc]
    ELSE LET key == line + d
             items == unmerged[d]
             values == [i \in 1..Len(items) |-> items[i][2]]
         IN  IF /\ key < Len(rows)
                /\ rows[key + 1].kind = "list"
                /\ get_number_of_columns(rows[key + 1].cells)
                     + get_number_of_columns(values) <= number_of_columns
             THEN merge_unmerged_rows(
                      [rows EXCEPT ![key + 1].cells = insert_cells(@, items, 1)],
                      line, unmerged, d + 1, number_of_columns)
             ELSE LET insert(row) ==
                          IF row.exc # NoExc THEN [rows |-> rows, exc |-> row.exc]
                          ELSE merge_unmerged_rows(
                                   list_insert(rows, key,
                                               LocalRow("list", row.cells, NewSrc)),
                                   line, unmerged, d + 1, number_of_columns)
                  IN  insert(overlay_cells(copy_row(rows[key].cells), items, 1))

\* _fill_next_rows(rows, line): [rows, exc]
fill_next_rows(rows, line, number_of_columns) ==
    LET merge(got) ==
            merge_unmerged_rows([rows EXCEPT ![line + 1].cells = got.cells],
                                line, got.unmerged, 1, number_of_columns)
    IN  merge(collect_rowspans(rows[line + 1].cells, 0, <<>>))

\* _build_table_rows, lines 407-445, for the cells of rows[row_key]:
\* [cells, unmerged, exc]; unmerged[k] is unmerged_rows[row_key][k]
RECURSIVE split_cells(_, _, _, _)
split_cells(cells, column, unmerged, column_max_widths) ==
    IF column >= Len(cells)
    THEN [cells |-> cells, unmerged |-> unmerged, exc |-> NoExc]
    ELSE LET given == cells[column + 1]
             colspan == IF is_TableCell(given) THEN given.colspan ELSE 1
             wrapped == /\ column \in DOMAIN column_max_widths
                        /\ column_max_widths[column] < Len(remove_format(given.text))
             cell == IF wrapped
                     THEN Str(format_and_wrap(given.text,
                                              column_max_widths[column] * colspan))
                     ELSE given
         IN  IF given.kind = "none"
             THEN [cells |-> cells, unmerged |-> unmerged, exc |-> TypeError]
             ELSE IF ~contains(cell.text, NL)
             THEN split_cells(cells, column + 1, unmerged, column_max_widths)
             ELSE LET pieces == split(cell.text)
                      escaped == join([i \in 1..Len(pieces) |->
                                          escape_trailing_backslash(pieces[i])])
                      lines == split(replace_breaks(escaped))
                      line(k) == IF colspan > 1
                                 THEN TableCell(lines[k + 1], 1, colspan, NoCellStyle)
                                 ELSE Str(lines[k + 1])
                      cells2 == [cells EXCEPT ![column + 1] = line(0)]
                      unmerged2 ==
                          [k \in 1..Max(Len(unmerged), Len(lines) - 1) |->
                              LET row == IF k <= Len(unmerged) THEN unmerged[k]
                                         ELSE copy_row(cells2)
                              IN  IF k <= Len(lines) - 1
                                  THEN [row EXCEPT ![column + 1] = line(k)]
                                  ELSE row]
                  IN  split_cells(cells2, column + 1, unmerged2, column_max_widths)

\* _build_table_rows, lines 404-445, one pass of the while loop:
\* [rows, unmerged, exc]; unmerged is unmerged_rows[row_key]
build_step(rows, row_key, number_of_columns, column_max_widths) ==
    LET split_row(filled, cut) ==
            [rows |-> [filled.rows EXCEPT ![row_key + 1].cells = cut.cells],
             unmerged |-> cut.unmerged, exc |-> cut.exc]
        fill_row(filled) ==
            IF filled.exc # NoExc
            THEN [rows |-> filled.rows, unmerged |-> <<>>, exc |-> filled.exc]
            ELSE split_row(filled,
                           split_cells(filled.rows[row_key + 1].cells, 0, <<>>,
                                       column_max_widths))
    IN  fill_row(fill_next_rows(rows, row_key, number_of_columns))

\* _build_table_rows, the while loop of lines 403-447:
\* [rows, unmerged, exc]; unmerged[row_key + 1] is unmerged_rows[row_key]
RECURSIVE build_loop(_, _, _, _, _)
build_loop(rows, row_key, unmerged, number_of_columns, column_max_widths) ==
    IF row_key >= Len(rows)
    THEN [rows |-> rows, unmerged |-> unmerged, exc |-> NoExc]
    ELSE LET next(step) ==
                 IF step.exc # NoExc
                 THEN [rows |-> step.rows, unmerged |-> unmerged, exc |-> step.exc]
                 ELSE build_loop(step.rows, row_key + 1,
                                 unmerged \o <<step.unmerged>>,
                                 number_of_columns, column_max_widths)
         IN  next(build_step(rows, row_key, number_of_columns, column_max_widths))

\* A row the generator yields: key and line_key are its keys in
\* unmerged_rows (line_key 0: the row rows[key] itself).
YieldedRow(kind, cells, key, line_key) ==
    [kind |-> kind, cells |-> cells, key |-> key, line_key |-> line_key]

\* every row first, the unmerged rows of all of them after the last row
yield_rows_siblings_last(rows, unmerged) ==
    [i \in 1..Len(rows) |->
        YieldedRow(rows[i].kind, fill_cells(rows[i].cells), i - 1, 0)]
    \o Concat([i \in 1..Len(rows) |->
                  [k \in 1..Len(unmerged[i]) |->
                      YieldedRow("list", fill_cells(unmerged[i][k]), i - 1, k)]])

\* _build_table_rows, lines 449-454: every row, then its unmerged rows
yield_rows(rows, unmerged) ==
    Concat([i \in 1..Len(rows) |->
               <<YieldedRow(rows[i].kind, fill_cells(rows[i].cells), i - 1, 0)>>
               \o [k \in 1..Len(unmerged[i]) |->
                      YieldedRow("list", fill_cells(unmerged[i][k]), i - 1, k)]])

\* list(self._build_table_rows(rows)): [rows (the local list, as left),
\* yielded (the list built), exc]
build_table_rows(rows, number_of_columns, column_max_widths) ==
    LET listed(built) ==
            [rows |-> built.rows,
             yielded |-> IF built.exc = NoExc
                         THEN yield_rows(built.rows, built.unmerged) ELSE <<>>,
             exc |-> built.exc]
    IN  listed(build_loop(rows, 0, <<>>, number_of_columns, column_max_widths))

----------------------------------------------------------------------------
(* The width resolver.  tb is the Table as render() reads it: its fields,   *)
(* with style and column_styles holding the style values.                   *)

\* _calculate_column_widths, lines 617-633: the text of every TableCell cut
\* into colspan chunks, written over the cells from its position on
RECURSIVE chunk_cells(_, _)
chunk_cells(row_, i) ==
    IF i >= Len(row_) THEN row_
    ELSE LET cell == row_[i + 1]
             text_content == remove_format(cell.text)
             text_length == Len(text_content)
             length == ceil_div(text_length, cell.colspan)
             chunks == ceil_div(text_length, length)
             content(p) == SubSeq(text_content, p * length + 1,
                                  Min((p + 1) * length, text_length))
         IN  IF is_TableCell(cell) /\ text_length > 0
             THEN chunk_cells(
                      [j \in 1..Max(Len(row_), i + chunks) |->
                          IF j - 1 >= i /\ j - 1 < i + chunks
                          THEN Str(content(j - 1 - i)) ELSE row_[j]],
                      i + 1)
             ELSE chunk_cells(row_, i + 1)

\* the width set_column_width gave the column is not looked at
get_cell_width_unfloored(row, column, column_widths, column_max_widths) ==
    LET cell_width == IF column < Len(row)
                      THEN Len(remove_format(row[column + 1].text)) ELSE 0
    IN  IF column \in DOMAIN column_max_widths
        THEN Min(column_max_widths[column], cell_width)
        ELSE cell_width

\* _get_cell_width
get_cell_width(row, column, column_widths, column_max_widths) ==
    LET cell_width == IF column < Len(row)
                      THEN Len(remove_format(row[column + 1].text)) ELSE 0
        column_width == IF column \in DOMAIN column_widths
                        THEN column_widths[column] ELSE 0
    IN  IF column \in DOMAIN column_max_widths
        THEN Min(column_max_widths[column], Max(cell_width, column_width))
        ELSE Max(cell_width, column_width)

\* _calculate_column_widths: [effective_column_widths, exc].  A None cell
\* makes remove_format raise; the columns before it are already stored.
calculate_column_widths(rows, tb) ==
    LET data == SelectSeq(rows, LAMBDA r : r.kind = "list")
        chunked == [i \in 1..Len(data) |-> chunk_cells(data[i].cells, 0)]
        failing == {c \in 0..(tb.number_of_columns - 1) :
                       \E i \in 1..Len(chunked) :
                           c < Len(chunked[i]) /\ chunked[i][c + 1].kind = "none"}
        columns == IF failing = {} THEN 0..(tb.number_of_columns - 1)
                   ELSE {c \in 0..(tb.number_of_columns - 1) :
                            \A f \in failing : c < f}
        width(c) ==
            max(<<0>> \o [i \in 1..Len(chunked) |->
                             get_cell_width(chunked[i], c, tb.column_widths,
                                            tb.column_max_widths)])
            + format_len(tb.style.cell_row_content_format) - 2
    IN  [effective_column_widths |->
             [c \in columns |-> width(c)] @@ tb.effective_column_widths,
         exc |-> IF failing = {} THEN NoExc ELSE TypeError]

----------------------------------------------------------------------------
(* The drawer. *)

SEPARATOR_TOP == 0
SEPARATOR_TOP_BOTTOM == 1
SEPARATOR_MID == 2
SEPARATOR_BOTTOM == 3

BORDER_OUTSIDE == 0
BORDER_INSIDE == 1

\* A line handed to write_line: what drew it (a separator type, or "ROW")
\* and its text.
Line(kind, text) == [kind |-> kind, text |-> text]

\* text[start:stop] as Python slices: a negative index counts from the end
py_slice(text, start, stop) ==
    LET norm(i) == IF i < 0 THEN Max(Len(text) + i, 0) ELSE Min(i, Len(text))
    IN  SubSeq(text, norm(start) + 1, norm(stop))

\* title = None
NoTitle == <<>>

\* _render_row_separator, lines 250-305: the line written
row_separator_line(type, title, title_format, tb) ==
    LET borders(i) == border_chars(tb.style, i)
        crossings(i) == crossing_chars(tb.style, i)
        glyphs ==
            CASE type = SEPARATOR_MID ->
                   <<borders(2), crossings(8), crossings(0), crossings(4)>>
              [] type = SEPARATOR_TOP ->
                   <<borders(0), crossings(1), crossings(2), crossings(3)>>
              [] type = SEPARATOR_TOP_BOTTOM ->
                   <<borders(0), crossings(9), crossings(10), crossings(11)>>
              [] OTHER ->
                   <<borders(0), crossings(7), crossings(6), crossings(5)>>
        horizontal == glyphs[1]
        left_char == glyphs[2]
        mid_char == glyphs[3]
        right_char == glyphs[4]
        count == tb.number_of_columns
        markup ==
            left_char \o
            Concat([c \in 1..count |->
                       Repeat(horizontal, tb.effective_column_widths[c - 1])
                       \o (IF c = count THEN right_char ELSE mid_char)])
        markup_length == len(markup)
        limit == markup_length - 4
        full_title == format(title_format, title[1])
        long == Len(remove_format(full_title)) > limit
        title_length == IF long THEN limit ELSE Len(remove_format(full_title))
        format_length == Len(remove_format(format(title_format, <<>>)))
        formatted_title ==
            IF long
            THEN format(title_format,
                        py_slice(title[1], 0, limit - format_length - 3)
                        \o <<".", ".", ".">>)
            ELSE full_title
        title_start == (markup_length - title_length) \div 2
        titled == py_slice(markup, 0, title_start) \o formatted_title
                  \o py_slice(markup, title_start + title_length, Len(markup))
        kind == CASE type = SEPARATOR_MID -> "MID"
                  [] type = SEPARATOR_TOP -> "TOP"
                  [] type = SEPARATOR_TOP_BOTTOM -> "TOP_BOTTOM"
                  [] OTHER -> "BOTTOM"
    IN  Line(kind, format(tb.style.border_format,
                          IF title = NoTitle THEN markup ELSE titled))

\* a separator is written whatever the glyphs of the style are
render_row_separator_unguarded(type, title, title_format, tb) ==
    IF tb.number_of_columns <= 0 THEN <<>>
    ELSE <<row_separator_line(type, title, title_format, tb)>>

\* _render_row_separator: the lines written (none or one)
render_row_separator(type, title, title_format, tb) ==
    IF tb.number_of_columns <= 0 THEN <<>>
    ELSE IF /\ border_chars(tb.style, 0) = <<>>
            /\ border_chars(tb.style, 2) = <<>>
            /\ crossing_char(tb.style) = <<>>
    THEN <<>>
    ELSE <<row_separator_line(type, title, title_format, tb)>>

\* _render_column_separator
render_column_separator(type, tb) ==
    format(tb.style.border_format,
           IF type = BORDER_OUTSIDE THEN border_chars(tb.style, 1)
           ELSE border_chars(tb.style, 3))

\* _get_column_separator_width
get_column_separator_width(tb) ==
    len(format(tb.style.border_format, border_chars(tb.style, 3)))

\* Table.column_style
column_style(tb, column_index) ==
    IF column_index \in DOMAIN tb.column_styles
    THEN tb.column_styles[column_index] ELSE tb.style

\* _get_row_columns: the columns 0..n-1 without those a colspan cell covers
get_row_columns(row, number_of_columns) ==
    LET grouped == UNION {(k + 1)..(k + row[k + 1].colspan - 1) :
                             k \in {j \in 0..(Len(row) - 1) :
                                       is_TableCell(row[j + 1])
                                       /\ row[j + 1].colspan > 1}}
        RECURSIVE list(_)
        list(c) == IF c >= number_of_columns THEN <<>>
                   ELSE (IF c \in grouped THEN <<>> ELSE <<c>>) \o list(c + 1)
    IN  list(0)

\* the regular expression of line 371 on str(cell): an opening tag, at least
\* one character, a closing tag
styled_by_tag(text) ==
    /\ Len(text) >= 3
    /\ text[1] \in {OpenTag, InfoOpen, TitleOpen}
    /\ text[Len(text)] \in CloseTags

\* the columns a cell spans are added without their column separators
spanned_width_without_separators(cell, column, tb) ==
    LET RECURSIVE sum(_)
        sum(next_column) ==
            IF next_column >= column + cell.colspan THEN 0
            ELSE tb.effective_column_widths[next_column] + sum(next_column + 1)
    IN  tb.effective_column_widths[column]
        + (IF is_TableCell(cell) /\ cell.colspan > 1 THEN sum(column + 1) ELSE 0)

\* lines 351-358: the cell's own column plus every column it spans, each
\* with a column separator
spanned_width(cell, column, tb) ==
    LET RECURSIVE sum(_)
        sum(next_column) ==
            IF next_column >= column + cell.colspan THEN 0
            ELSE get_column_separator_width(tb)
                 + tb.effective_column_widths[next_column] + sum(next_column + 1)
    IN  tb.effective_column_widths[column]
        + (IF is_TableCell(cell) /\ cell.colspan > 1 THEN sum(column + 1) ELSE 0)

\* _render_cell: [text, exc]
render_cell(row, column, cell_format, tb) ==
    LET cell == IF column < Len(row) THEN row[column + 1] ELSE Str(<<>>)
        spanned == IF is_TableCell(cell) /\ cell.colspan > 1
                   THEN (column + 1)..(column + cell.colspan - 1) ELSE {}
        style == column_style(tb, column)
        width0 == spanned_width(cell, column, tb)
        width1 == width0 + len(cell.text) - len(remove_format(cell.text))
        content == format(style.cell_row_content_format, cell.text)
        restyled == is_TableCell(cell) /\ cell.style.set
        by_cell == restyled /\ ~styled_by_tag(cell.text)
        cell_format2 ==
            IF ~by_cell THEN cell_format
            ELSE IF cell.style.cell_format = <<>>
            THEN Format(<<CellTagOpen>>, <<CloseTag>>)
            ELSE cell.style.cell_format[1]
        closed == by_cell /\ contains(content, CloseTag)
        content2 == IF closed THEN SelectSeq(content, LAMBDA k : k # CloseTag)
                    ELSE content
        width2 == IF closed THEN width1 - 3 ELSE width1
        padded == IF restyled
                  THEN cell_style_pad(cell.style, content2, width2,
                                      style.padding_char)
                  ELSE pad(style, content2, width2, style.padding_char)
    IN  IF \/ column \notin DOMAIN tb.effective_column_widths
           \/ ~(spanned \subseteq DOMAIN tb.effective_column_widths)
        THEN [text |-> <<>>, exc |-> KeyError]
        ELSE IF cell.kind = "sep"
        THEN [text |-> format(style.border_format,
                              Repeat(border_chars(style, 2), width0)),
              exc |-> NoExc]
        ELSE IF cell.kind = "none"
        THEN [text |-> <<>>, exc |-> TypeError]
        ELSE IF by_cell /\ contains(content2, OpenTag)
        THEN [text |-> <<>>, exc |-> TypeError]
        ELSE [text |-> format(cell_format2, padded), exc |-> NoExc]

\* _render_row: [lines, exc]; first_cell_format <<>> is None
render_row(row, cell_format, first_cell_format, tb) ==
    LET written(columns, cells) ==
            IF \A i \in 1..Len(cells) : cells[i].exc = NoExc
            THEN [lines |->
                      <<Line("ROW",
                             render_column_separator(BORDER_OUTSIDE, tb) \o
                             Concat([i \in 1..Len(columns) |->
                                        cells[i].text \o
                                        render_column_separator(
                                            IF i = Len(columns) THEN BORDER_OUTSIDE
                                            ELSE BORDER_INSIDE,
                                            tb)]))>>,
                  exc |-> NoExc]
            ELSE [lines |-> <<>>,
                  exc |-> cells[CHOOSE i \in 1..Len(cells) :
                                    /\ cells[i].exc # NoExc
                                    /\ \A j \in 1..(i - 1) : cells[j].exc = NoExc].exc]
        rendered(columns) ==
            written(columns,
                    [i \in 1..Len(columns) |->
                        render_cell(row, columns[i],
                                    IF first_cell_format # <<>> /\ i = 1
                                    THEN first_cell_format[1] ELSE cell_format,
                                    tb)])
    IN  rendered(get_row_columns(row, tb.number_of_columns))

\* the header rows get the separator of the first body row
row_separator_above_swapped(is_header, is_first_row, tb) ==
    IF is_first_row
    THEN render_row_separator(SEPARATOR_TOP, tb.header_title,
                              tb.style.header_title_format, tb)
    ELSE IF is_header
    THEN render_row_separator(SEPARATOR_TOP_BOTTOM, NoTitle,
                              tb.style.header_title_format, tb)
    ELSE <<>>

\* render, lines 197-206: the separator written above a content row
row_separator_above(is_header, is_first_row, tb) ==
    IF is_first_row
    THEN render_row_separator(SEPARATOR_TOP_BOTTOM, NoTitle,
                              tb.style.header_title_format, tb)
    ELSE IF is_header
    THEN render_row_separator(SEPARATOR_TOP, tb.header_title,
                              tb.style.header_title_format, tb)
    ELSE <<>>

\* render, the loop of lines 182-218: [lines, exc]
RECURSIVE draw_rows(_, _, _, _, _)
draw_rows(rows, i, is_header, is_first_row, tb) ==
    IF i > Len(rows) THEN [lines |-> <<>>, exc |-> NoExc]
    ELSE LET row == rows[i]
             then(lines, rest) ==
                 [lines |-> lines \o rest.lines, exc |-> rest.exc]
             \* lines 196-213: the separator above the row, then the row
             draw(above, drawn) ==
                 IF drawn.exc # NoExc THEN [lines |-> above, exc |-> drawn.exc]
                 ELSE then(above \o drawn.lines,
                           draw_rows(rows, i + 1, is_header, FALSE, tb))
         IN  IF row.kind = "div" THEN draw_rows(rows, i + 1, FALSE, TRUE, tb)
             ELSE IF row.kind = "sep"
             THEN then(render_row_separator(SEPARATOR_MID, NoTitle,
                                            tb.style.header_title_format, tb),
                       draw_rows(rows, i + 1, is_header, is_first_row, tb))
             ELSE IF row.cells = <<>>
             THEN draw_rows(rows, i + 1, is_header, is_first_row, tb)
             ELSE draw(row_separator_above(is_header, is_first_row, tb),
                       IF tb.horizontal
                       THEN render_row(row.cells, tb.style.cell_row_format,
                                       <<tb.style.cell_header_format>>, tb)
                       ELSE render_row(row.cells,
                                       IF is_header THEN tb.style.cell_header_format
                                       ELSE tb.style.cell_row_format,
                                       <<>>, tb))

----------------------------------------------------------------------------
(* Table. *)

\* self._number_of_columns = None
NoColumns == -1

\* self._style before set_style
NoRef == 0

\* the fields __init__ sets, lines 40-63
NewTable ==
    [header_title |-> NoTitle,
     footer_title |-> NoTitle,
     headers |-> <<>>,
     rows |-> <<>>,
     horizontal |-> FALSE,
     effective_column_widths |-> <<>>,
     number_of_columns |-> NoColumns,
     column_styles |-> <<>>,
     column_widths |-> <<>>,
     column_max_widths |-> <<>>,
     rendered |-> FALSE,
     style |-> NoRef]

\* the table with the style objects its references name
TableView(tb, h) ==
    [tb EXCEPT !.style = h[tb.style],
               !.column_styles = [c \in DOMAIN tb.column_styles |->
                                     h[tb.column_styles[c]]]]

\* render, lines 156-171: the transposed rows of a horizontal table
horizontal_rows(tb) ==
    LET headers == IF tb.headers # <<>> THEN tb.headers[1].cells ELSE <<>>
        body == SelectSeq(tb.rows, LAMBDA r : r.kind = "list")
        title(i) == is_TableCell(headers[i + 1]) /\ headers[i + 1].colspan >= 2
    IN  [n \in 1..Len(headers) |->
            LocalRow("list",
                     <<headers[n]>> \o
                     Concat([j \in 1..Len(body) |->
                                IF Len(body[j].cells) > n - 1
                                THEN <<body[j].cells[n]>>
                                ELSE IF title(n - 1) THEN <<>>
                                ELSE <<NoneCell>>]),
                     NewSrc)]

\* render, line 173: self._headers + [divider] + self._rows
vertical_rows(tb) ==
    [i \in 1..Len(tb.headers) |->
        LocalRow(tb.headers[i].kind, tb.headers[i].cells,
                 [from |-> "headers", at |-> i])]
    \o <<LocalRow("div", <<>>, NewSrc)>>
    \o [i \in 1..Len(tb.rows) |->
           LocalRow(tb.rows[i].kind, tb.rows[i].cells,
                    [from |-> "rows", at |-> i])]

\* what the normalizer wrote into the row lists of the table
written_back(table_rows, from, rows) ==
    [i \in 1..Len(table_rows) |->
        IF \E k \in 1..Len(rows) : rows[k].src = [from |-> from, at |-> i]
        THEN [table_rows[i] EXCEPT !.cells =
                 rows[CHOOSE k \in 1..Len(rows) :
                          rows[k].src = [from |-> from, at |-> i]].cells]
        ELSE table_rows[i]]

\* _cleanup
cleanup(tb) == [tb EXCEPT !.column_widths = <<>>, !.number_of_columns = NoColumns]

\* render, lines 156-173: the local list `rows`
local_rows(tb) == IF tb.horizontal THEN horizontal_rows(tb) ELSE vertical_rows(tb)

\* render, lines 176-227, on the table tb with its number of columns set and
\* the rows `built` by the normalizer: [table, lines, rows, local, exc]
render_built(tb, h, built) ==
    LET \* lines 182-227
        written(tb3, rows, drawn) ==
            IF drawn.exc # NoExc
            THEN [table |-> tb3, lines |-> drawn.lines, rows |-> rows,
                  local |-> built.rows, exc |-> drawn.exc]
            ELSE [table |-> [cleanup(tb3) EXCEPT !.rendered = TRUE],
                  lines |-> drawn.lines \o
                            render_row_separator(SEPARATOR_BOTTOM, tb.footer_title,
                                                 h[tb.style].footer_title_format,
                                                 TableView(tb3, h)),
                  rows |-> rows,
                  local |-> built.rows,
                  exc |-> NoExc]
        \* line 177
        measured(tb2, rows, widths) ==
            IF widths.exc # NoExc
            THEN [table |-> [tb2 EXCEPT !.effective_column_widths =
                                widths.effective_column_widths],
                  lines |-> <<>>, rows |-> rows, local |-> built.rows,
                  exc |-> widths.exc]
            ELSE written([tb2 EXCEPT !.effective_column_widths =
                             widths.effective_column_widths],
                         rows,
                         draw_rows(rows, 1, ~tb.horizontal, tb.horizontal,
                                   TableView([tb2 EXCEPT !.effective_column_widths =
                                                 widths.effective_column_widths],
                                             h)))
        aliased(tb1) ==
            [tb1 EXCEPT !.headers = written_back(@, "headers", built.rows),
                        !.rows = written_back(@, "rows", built.rows)]
        \* line 176
        normalized(tb1) ==
            IF built.exc # NoExc
            THEN [table |-> tb1, lines |-> <<>>, rows |-> <<>>,
                  local |-> built.rows, exc |-> built.exc]
            ELSE measured(tb1, built.yielded,
                          calculate_column_widths(built.yielded, TableView(tb1, h)))
    IN  normalized(aliased(tb))

\* render on the table tb (style references) over the heap h:
\* [table, lines, rows, local, exc]
render(tb, h) ==
    LET \* line 175
        counted(rows, number_of_columns) ==
            render_built([tb EXCEPT !.number_of_columns = number_of_columns], h,
                         build_table_rows(rows, number_of_columns,
                                          tb.column_max_widths))
        listed(rows) == counted(rows, calculate_number_of_columns(rows))
    IN  listed(local_rows(tb))

\* the values of a dict in the order of its (integer) keys
RECURSIVE dict_values(_)
dict_values(d) ==
    IF DOMAIN d = {} THEN <<>>
    ELSE LET k == CHOOSE x \in DOMAIN d : \A y \in DOMAIN d : x <= y
         IN  <<d[k]>> \o dict_values([x \in DOMAIN d \ {k} |-> d[x]])

\* the style references the tables hold, table by table
held(tbs) ==
    Concat(dict_values([t \in DOMAIN tbs |->
                           <<tbs[t].style>> \o dict_values(tbs[t].column_styles)]))

\* The style objects after a call: an object nothing refers to any more is
\* freed.  Which reference an object has is immaterial, so the objects the
\* tables hold are numbered in the order the tables hold them, after the
\* templates: [heap, tables].
collect(h, st, tbs) ==
    LET templates == {st[n] : n \in DOMAIN st}
        refs == held(tbs)
        first(r) == CHOOSE i \in 1..Len(refs) :
                        refs[i] = r /\ \A j \in 1..(i - 1) : refs[j] # r
        own == {refs[i] : i \in 1..Len(refs)} \ templates
        number(r) == IF r \in templates THEN r
                     ELSE Cardinality(templates)
                          + Cardinality({q \in own : first(q) <= first(r)})
    IN  [heap |-> [n \in {number(r) : r \in templates \cup own} |->
                      h[CHOOSE r \in templates \cup own : number(r) = n]],
         tables |-> [t \in DOMAIN tbs |->
                        [tbs[t] EXCEPT
                            !.style = number(@),
                            !.column_styles =
                                [c \in DOMAIN @ |-> number(@[c])]]]]

\* set_style(name): [table, styles, heap, exc]
set_style(tb, cls, name) ==
    LET ready == init_styles(cls)
        got == resolve_style(ready, name)
    IN  [table |-> IF got.exc = NoExc THEN [tb EXCEPT !.style = got.ref] ELSE tb,
         styles |-> ready.styles,
         heap |-> got.heap,
         exc |-> got.exc]

\* set_column_style(column_index, name) for a str name: [table, heap, exc]
set_column_style(tb, cls, column_index, name) ==
    LET got == resolve_style(cls, name)
    IN  [table |-> IF got.exc = NoExc
                   THEN [tb EXCEPT !.column_styles =
                            (column_index :> got.ref) @@ @]
                   ELSE tb,
         heap |-> got.heap,
         exc |-> got.exc]

\* set_column_width
set_column_width(tb, column_index, width) ==
    [tb EXCEPT !.column_widths = (column_index :> width) @@ @]

\* set_column_widths
set_column_widths(tb, widths) ==
    [tb EXCEPT !.column_widths = [c \in 0..(Len(widths) - 1) |-> widths[c + 1]]]

\* set_column_max_width
set_column_max_width(tb, column_index, width) ==
    [tb EXCEPT !.column_widths = (column_index :> width) @@ @]

\* set_headers: a flat list of cells is wrapped into a list of one row
set_headers(tb, headers) ==
    [tb EXCEPT !.headers =
        IF headers # <<>> /\ "cells" \notin DOMAIN headers[1]
        THEN <<ListRow(headers)>>
        ELSE headers]

\* add_row
add_row(tb, row) == [tb EXCEPT !.rows = Append(@, row)]

\* set_header_title, set_footer_title, horizontal
set_header_title(tb, header_title) == [tb EXCEPT !.header_title = <<header_title>>]
set_footer_title(tb, footer_title) == [tb EXCEPT !.footer_title = <<footer_title>>]
horizontal(tb, flag) == [tb EXCEPT !.horizontal = flag]

----------------------------------------------------------------------------
(* The calls a program makes.  A table is configured by builder calls and   *)
(* then rendered, any number of times.                                      *)

Call(op, t, arg, exc) == [op |-> op, t |-> t, arg |-> arg, exc |-> exc]

\* no render() has run in the most recent call
NoFrame == [rows |-> <<>>, number_of_columns |-> NoColumns, local |-> <<>>]

\* the tables: Main in every specification, Other in SpecStyles
Main == 1
Other == 2

\* the arguments the calls are given
StyleInputs == {"default", "compact", "box-double", "not-a-style"}
Columns == {0, 1}
WidthInputs == {1, 3}
HeaderInputs ==
    { <<>>,
      <<Str(<<"h">>), Str(<<"i", "i">>)>> }
DrawnRowInputs ==
    { ListRow(<<Str(<<"a">>), Str(<<"b", "b">>)>>),
      ListRow(<<Str(<<"a">>)>>),
      ListRow(<<Str(<<"a", NL, "b">>), Str(<<"c">>)>>),
      ListRow(<<TableCell(<<"a", "b", "c">>, 1, 2, NoCellStyle)>>),
      SeparatorRow }
RowInputs ==
    DrawnRowInputs \cup
    { ListRow(<<Str(<<"a", NL, "b">>), Str(<<"c", NL, "d", NL, "e">>)>>),
      ListRow(<<TableCell(<<"a">>, 2, 1, NoCellStyle), Str(<<"b">>)>>),
      ListRow(<<TableCell(<<"a", NL, "b">>, 2, 1, NoCellStyle), Str(<<"c">>)>>) }

\* rows with cells that span rows: three rows without a line break, a
\* short row, a full row and a separator to go beneath them, a full row
\* with a line break, and a cell with a style of its own
SpanRowInputs ==
    { ListRow(<<TableCell(<<"a">>, 3, 1, NoCellStyle), Str(<<"b">>)>>),
      ListRow(<<TableCell(<<"a">>, 2, 2, NoCellStyle)>>),
      ListRow(<<Str(<<"c">>)>>),
      ListRow(<<Str(<<"c">>), Str(<<"d">>)>>),
      ListRow(<<Str(<<"a", NL, "b">>), Str(<<"c">>)>>),
      ListRow(<<TableCell(<<"a", NL, "b">>, 2, 1, TableCellStyle("right", <<>>)),
                Str(<<"c">>)>>),
      ListRow(<<TableCell(<<"a">>, 2, 1, NoCellStyle), Str(<<"a", NL, "b">>)>>),
      SeparatorRow }

\* Table(io, style)
Construct(t, name) ==
    /\ t \notin DOMAIN tables
    /\ LET set == set_style(NewTable, [styles |-> styles, heap |-> heap], name)
           kept == collect(set.heap, set.styles,
                           IF set.exc = NoExc THEN (t :> set.table) @@ tables
                           ELSE tables)
       IN  /\ styles' = set.styles
           /\ tables' = kept.tables
           /\ heap' = kept.heap
           /\ call' = Call("Table", t, name, set.exc)
    /\ out' = <<>>
    /\ frame' = NoFrame

SetStyle(t, name) ==
    /\ t \in DOMAIN tables
    /\ ~tables[t].rendered
    /\ LET set == set_style(tables[t], [styles |-> styles, heap |-> heap], name)
           kept == collect(set.heap, set.styles, [tables EXCEPT ![t] = set.table])
       IN  /\ styles' = set.styles
           /\ tables' = kept.tables
           /\ heap' = kept.heap
           /\ call' = Call("set_style", t, name, set.exc)
    /\ out' = <<>>
    /\ frame' = NoFrame

SetColumnStyle(t, c, name) ==
    /\ t \in DOMAIN tables
    /\ ~tables[t].rendered
    /\ LET set == set_column_style(tables[t], [styles |-> styles, heap |-> heap],
                                   c, name)
           kept == collect(set.heap, styles, [tables EXCEPT ![t] = set.table])
       IN  /\ tables' = kept.tables
           /\ heap' = kept.heap
           /\ call' = Call("set_column_style", t, name, set.exc)
    /\ out' = <<>>
    /\ frame' = NoFrame
    /\ UNCHANGED styles

\* table.style.set_horizontal_border_chars("#"): the caller changes the
\* style object the table holds
MutateStyle(t) ==
    /\ t \in DOMAIN tables
    /\ heap' = [heap EXCEPT ![tables[t].style] =
                   set_horizontal_border_chars(@, <<"#">>, <<"#">>)]
    /\ call' = Call("style.set_horizontal_border_chars", t, "#", NoExc)
    /\ out' = <<>>
    /\ frame' = NoFrame
    /\ UNCHANGED <<styles, tables>>

\* table.column_style(c).set_vertical_border_chars("!")
MutateColumnStyle(t, c) ==
    /\ t \in DOMAIN tables
    /\ heap' = [heap EXCEPT ![IF c \in DOMAIN tables[t].column_styles
                              THEN tables[t].column_styles[c]
                              ELSE tables[t].style] =
                   set_vertical_border_chars(@, <<"!">>, <<"!">>)]
    /\ call' = Call("column_style.set_vertical_border_chars", t, "!", NoExc)
    /\ out' = <<>>
    /\ frame' = NoFrame
    /\ UNCHANGED <<styles, tables>>

\* a builder call that cannot fail and touches the table only
Builder(t, op, arg, tb) ==
    /\ ~tables[t].rendered
    /\ tables' = [tables EXCEPT ![t] = tb]
    /\ call' = Call(op, t, arg, NoExc)
    /\ out' = <<>>
    /\ frame' = NoFrame
    /\ UNCHANGED <<styles, heap>>

SetColumnWidth(t, c, w) ==
    /\ t \in DOMAIN tables
    /\ Builder(t, "set_column_width", <<c, w>>, set_column_width(tables[t], c, w))

SetColumnMaxWidth(t, c, w) ==
    /\ t \in DOMAIN tables
    /\ Builder(t, "set_column_max_width", <<c, w>>,
               set_column_max_width(tables[t], c, w))

SetHeaders(t, headers) ==
    /\ t \in DOMAIN tables
    /\ Builder(t, "set_headers", "", set_headers(tables[t], headers))

AddRow(t, row) ==
    /\ t \in DOMAIN tables
    /\ Len(tables[t].rows) < MaxRows
    /\ Builder(t, "add_row", "", add_row(tables[t], row))

Horizontal(t) ==
    /\ t \in DOMAIN tables
    /\ ~tables[t].horizontal
    /\ Builder(t, "horizontal", "", horizontal(tables[t], TRUE))

SetHeaderTitle(t, title) ==
    /\ t \in DOMAIN tables
    /\ Builder(t, "set_header_title", "", set_header_title(tables[t], title))

SetFooterTitle(t, title) ==
    /\ t \in DOMAIN tables
    /\ Builder(t, "set_footer_title", "", set_footer_title(tables[t], title))

Render(t) ==
    /\ t \in DOMAIN tables
    /\ LET returned(done) ==
               /\ tables' = [tables EXCEPT ![t] = done.table]
               /\ out' = done.lines
               /\ call' = Call("render", t, "", done.exc)
               /\ frame' = [rows |-> done.rows,
                            number_of_columns |->
                                calculate_number_of_columns(local_rows(tables[t])),
                            local |-> done.local]
       IN  returned(render(tables[t], heap))
    /\ UNCHANGED <<styles, heap>>

\* render() up to line 175 and the entry into _build_table_rows (lines
\* 401-402): the local list, the number of columns, row_key = 0 and no
\* unmerged rows; the process stands at the head of the while loop
RenderBegin(t) ==
    /\ t \in DOMAIN tables
    /\ call.op # "_build_table_rows"
    /\ frame' = [rows |-> <<>>,
                 number_of_columns |->
                     calculate_number_of_columns(local_rows(tables[t])),
                 local |-> local_rows(tables[t]),
                 row_key |-> 0,
                 unmerged |-> <<>>]
    /\ call' = Call("_build_table_rows", t, "", NoExc)
    /\ out' = <<>>
    /\ UNCHANGED <<styles, heap, tables>>

\* what render() leaves when _build_table_rows has ended with `built`
RenderEnd(t, built) ==
    LET returned(done) ==
            /\ tables' = [tables EXCEPT ![t] = done.table]
            /\ out' = done.lines
            /\ call' = Call("render", t, "", done.exc)
            /\ frame' = [rows |-> done.rows,
                         number_of_columns |-> frame.number_of_columns,
                         local |-> done.local]
    IN  /\ returned(render_built([tables[t] EXCEPT !.number_of_columns =
                                     frame.number_of_columns],
                                 heap, built))
        /\ UNCHANGED <<styles, heap>>

\* one pass of the while loop of _build_table_rows (lines 403-447): the
\* rows beneath rows[row_key] are filled, its cells are split, row_key
\* moves on; an exception raised in the pass ends render()
NormalizeStep ==
    /\ call.op = "_build_table_rows"
    /\ frame.row_key < Len(frame.local)
    /\ LET next(step) ==
               IF step.exc # NoExc
               THEN RenderEnd(call.t, [rows |-> step.rows, yielded |-> <<>>,
                                       exc |-> step.exc])
               ELSE /\ frame' = [frame EXCEPT
                                    !.local = step.rows,
                                    !.row_key = @ + 1,
                                    !.unmerged = @ \o <<step.unmerged>>]
                    /\ UNCHANGED <<styles, heap, tables, out, call>>
       IN  next(build_step(frame.local, frame.row_key, frame.number_of_columns,
                           tables[call.t].column_max_widths))

\* the while loop has ended (line 403): the rows are yielded (lines
\* 449-454) and render() goes on from line 177 to its end
RenderFinish ==
    /\ call.op = "_build_table_rows"
    /\ frame.row_key >= Len(frame.local)
    /\ RenderEnd(call.t, [rows |-> frame.local,
                          yielded |-> yield_rows(frame.local, frame.unmerged),
                          exc |-> NoExc])

Init ==
    /\ styles = NoStyles
    /\ heap = <<>>
    /\ tables = <<>>
    /\ out = <<>>
    /\ call = Call("", 0, "", NoExc)
    /\ frame = NoFrame

\* One table, configured and drawn.
Next ==
    \/ \E name \in StyleInputs : Construct(Main, name)
    \/ \E name \in StyleInputs : SetStyle(Main, name)
    \/ \E h \in HeaderInputs : SetHeaders(Main, h)
    \/ \E r \in DrawnRowInputs : AddRow(Main, r)
    \/ \E c \in Columns, w \in WidthInputs : SetColumnWidth(Main, c, w)
    \/ \E c \in Columns, w \in WidthInputs : SetColumnMaxWidth(Main, c, w)
    \/ Render(Main)

Spec == Init /\ [][Next]_vars

\* One table in the default style: the rows the normalizer is given.
NextRows ==
    \/ Construct(Main, "default")
    \/ \E h \in HeaderInputs : SetHeaders(Main, h)
    \/ \E r \in RowInputs : AddRow(Main, r)
    \/ Render(Main)

SpecRows == Init /\ [][NextRows]_vars

\* Two tables and their styles.
NextStyles ==
    \/ \E t \in {Main, Other}, name \in {"default", "compact", "not-a-style"} :
           Construct(t, name)
    \/ \E t \in {Main, Other}, name \in {"default", "compact", "not-a-style"} :
           SetStyle(t, name)
    \/ \E t \in {Main, Other}, name \in {"default", "compact", "not-a-style"} :
           SetColumnStyle(t, 0, name)
    \/ \E t \in {Main, Other} : MutateStyle(t)
    \/ \E t \in {Main, Other} : MutateColumnStyle(t, 0)

SpecStyles == Init /\ [][NextStyles]_vars

\* One table in the default style, upright or horizontal, with width floors.
NextLayout ==
    \/ Construct(Main, "default")
    \/ \E h \in HeaderInputs : SetHeaders(Main, h)
    \/ \E r \in DrawnRowInputs : AddRow(Main, r)
    \/ Horizontal(Main)
    \/ \E c \in Columns, w \in WidthInputs : SetColumnWidth(Main, c, w)
    \/ Render(Main)

SpecLayout == Init /\ [][NextLayout]_vars

\* One table in the default style: rows with cells that span rows.
NextSpans ==
    \/ Construct(Main, "default")
    \/ \E h \in HeaderInputs : SetHeaders(Main, h)
    \/ \E r \in SpanRowInputs : AddRow(Main, r)
    \/ Render(Main)

SpecSpans == Init /\ [][NextSpans]_vars

\* titles a table of two columns has room for, or has to cut
TitleInputs ==
    { <<"t">>,
      <<"a", "b", "c", "d", "e", "f", "g", "h">> }

\* One table of the default style with titles on its outer separators.
NextTitles ==
    \/ Construct(Main, "default")
    \/ \E h \in HeaderInputs : SetHeaders(Main, h)
    \/ \E r \in DrawnRowInputs : AddRow(Main, r)
    \/ \E title \in TitleInputs : SetHeaderTitle(Main, title)
    \/ \E title \in TitleInputs : SetFooterTitle(Main, title)
    \/ Render(Main)

SpecTitles == Init /\ [][NextTitles]_vars

\* the rows with cells that span rows, and a row of three columns whose
\* last cell spans three rows with a line of text for each
StepRowInputs ==
    SpanRowInputs \cup
    { ListRow(<<Str(<<"x">>), Str(<<"y">>),
                TableCell(<<"a", NL, "b", NL, "c">>, 3, 1, NoCellStyle)>>) }

\* One table, its render() taken one pass of the normalizing loop at a
\* time.  No other call is made on the table while render() runs.
NextSteps ==
    \/ call.op # "_build_table_rows" /\ Construct(Main, "default")
    \/ call.op # "_build_table_rows" /\ \E r \in StepRowInputs : AddRow(Main, r)
    \/ RenderBegin(Main)
    \/ NormalizeStep
    \/ RenderFinish

SpecSteps == Init /\ [][NextSteps]_vars

----------------------------------------------------------------------------
(* What the calls are observed to do. *)

\* the most recent call was a render() that returned
Returned == call.op = "render" /\ call.exc = NoExc

\* the positions of the BOTTOM separators among the lines written
Bottoms == {i \in 1..Len(out) : out[i].kind = "BOTTOM"}

\* the style object of the table the most recent call was made on
CallStyle == heap[tables[call.t].style]

\* the style draws no row separator: lines 246-248
NoRule(s) ==
    /\ s.horizontal_outside_border_char = <<>>
    /\ s.horizontal_inside_border_char = <<>>
    /\ s.crossing_chars[1] = <<>>

\* the kinds of the lines written, in order
Kinds == [i \in 1..Len(out) |-> out[i].kind]

\* C1: two consecutive render() calls on a table, no builder call between
\* them, write the same sequence of lines.
C1_RenderTwiceSameLines ==
    [][(Returned /\ call'.op = "render" /\ call'.t = call.t) => out' = out]_vars

\* C2 as claimed: a render() that returns has written exactly one BOTTOM
\* separator, as its last line.
C2_ExactlyOneBottomLast ==
    Returned => Bottoms = {Len(out)} /\ Len(out) >= 1

\* C2: a render() that returns has written at most one BOTTOM separator, as
\* its last line; it has written one exactly if the table has a column and
\* the style has a horizontal border glyph or a crossing glyph.
C2_BottomLastIfDrawn ==
    Returned =>
        /\ Bottoms \subseteq {Len(out)}
        /\ (Bottoms # {}) <=> (frame.number_of_columns > 0 /\ ~NoRule(CallStyle))

C2_Witness == Returned /\ Bottoms = {Len(out)} /\ Len(out) >= 3

\* C3: a call that resolves a style name that is not registered raises
\* ValueError with the name, and no line is written.
C3_UnknownStyleRejected ==
    (call.op \in {"Table", "set_style", "set_column_style"}
     /\ call.arg \notin DOMAIN styles)
        => call.exc = ValueError(call.arg) /\ out = <<>>

C3_Witness ==
    /\ call.op = "set_column_style"
    /\ call.exc = ValueError("not-a-style")
    /\ Other \in DOMAIN tables

\* C4: the registered templates never change, and a change made to the style
\* a table holds changes no style another table holds.
C4_StylesIndependent ==
    [][/\ \A n \in DOMAIN styles' : heap'[styles'[n]] = Templates[n]
       /\ \A t \in DOMAIN tables :
              (call'.t # t /\ t \in DOMAIN tables')
                  => TableView(tables'[t], heap') = TableView(tables[t], heap)]_vars

C4_Witness ==
    /\ DOMAIN tables = {Main, Other}
    /\ heap[tables[Main].style].horizontal_outside_border_char = <<"#">>
    /\ heap[tables[Other].style] = Templates["default"]
    /\ 0 \in DOMAIN tables[Other].column_styles
    /\ heap[tables[Other].column_styles[0]].vertical_outside_border_char = <<"!">>

\* one header row and one body row, no titles, no explicit separator
OneHeaderOneBody(tb) ==
    /\ ~tb.horizontal
    /\ Len(tb.headers) = 1 /\ tb.headers[1].cells # <<>>
    /\ Len(tb.rows) = 1 /\ tb.rows[1].kind = "list"
    /\ tb.header_title = NoTitle /\ tb.footer_title = NoTitle

\* every cell of the row is a single line with rowspan 1
SingleLines(row) ==
    \A i \in 1..Len(row.cells) :
        ~contains(row.cells[i].text, NL) /\ row.cells[i].rowspan = 1

\* C9 as claimed: one header row and one body row are written as a
\* TOP_BOTTOM separator, the header, a MID separator, the body, a BOTTOM
\* separator.
C9_HeaderBodyLinesClaimed ==
    [][(Returned' /\ OneHeaderOneBody(tables[call'.t]))
           => Kinds' = <<"TOP_BOTTOM", "ROW", "MID", "ROW", "BOTTOM">>]_vars

\* C9: in a style that draws row separators, one header row and one body
\* row of single-line cells are written as a TOP separator, the header, a
\* TOP_BOTTOM separator, the body, a BOTTOM separator.
C9_HeaderBodyLines ==
    [][(/\ Returned'
        /\ OneHeaderOneBody(tables[call'.t])
        /\ ~NoRule(heap[tables[call'.t].style])
        /\ SingleLines(tables[call'.t].headers[1])
        /\ SingleLines(tables[call'.t].rows[1]))
           => Kinds' = <<"TOP", "ROW", "TOP_BOTTOM", "ROW", "BOTTOM">>]_vars

C9_Witness ==
    /\ Returned
    /\ OneHeaderOneBody(tables[call.t])
    /\ Kinds = <<"TOP", "ROW", "TOP_BOTTOM", "ROW", "BOTTOM">>

\* the content lines written, and the rows they were written for
RowLines == SelectSeq(out, LAMBDA l : l.kind = "ROW")
DrawnRows == SelectSeq(frame.rows, LAMBDA r : r.kind = "list" /\ r.cells # <<>>)

\* the number of characters of a text that are shown
Shown(text) == Len(remove_format(text))

\* the effective widths the render() left, summed over columns first..last
RECURSIVE SumWidths(_, _)
SumWidths(first, last) ==
    IF first > last THEN 0
    ELSE tables[call.t].effective_column_widths[first] + SumWidths(first + 1, last)

\* the row is one cell that spans all n >= 2 columns of the table
SpansAll(row) ==
    /\ is_TableCell(row.cells[1])
    /\ row.cells[1].colspan >= 2
    /\ row.cells[1].colspan = frame.number_of_columns

\* C10: a cell that spans the n columns c..c+n-1 is drawn as wide as the
\* effective widths of these columns and the n-1 inner column separators
\* between them; seen on a row that is one such cell, between the two
\* outer column separators.
C10_SpannedCellWidth ==
    Returned =>
        \A j \in 1..Len(DrawnRows) :
            SpansAll(DrawnRows[j]) =>
                Shown(RowLines[j].text)
                    - 2 * Shown(format(CallStyle.border_format,
                                       CallStyle.vertical_outside_border_char))
                  = SumWidths(0, frame.number_of_columns - 1)
                    + (frame.number_of_columns - 1)
                      * Shown(format(CallStyle.border_format,
                                     CallStyle.vertical_inside_border_char))

C10_Witness ==
    /\ Returned
    /\ \E j \in 1..Len(DrawnRows) :
           /\ SpansAll(DrawnRows[j])
           /\ DrawnRows[j].cells[1].colspan = 2
           /\ Shown(RowLines[j].text) = SumWidths(0, 1) + 3
           /\ tables[call.t].effective_column_widths[0] >= 3
           /\ tables[call.t].effective_column_widths[1] >= 3

\* the rows the normalizer yielded that are lists of cells
ListRows == SelectSeq(frame.rows, LAMBDA r : r.kind = "list")

\* every cell that spans k columns is followed by k - 1 entries ""
Filled(cells) ==
    \A i \in 1..Len(cells) :
        is_TableCell(cells[i]) =>
            \A j \in (i + 1)..(i + cells[i].colspan - 1) :
                j <= Len(cells) /\ cells[j] = Str(<<>>)

\* C5 as claimed: every normalized row that is not a separator has exactly
\* number_of_columns entries.
C5_RowsHaveAllColumns ==
    Returned =>
        \A i \in 1..Len(ListRows) :
            Len(ListRows[i].cells) = frame.number_of_columns

\* C5: every normalized row that is not a separator has at most
\* number_of_columns entries, a "" entry after each cell for every further
\* column the cell spans; a row shorter than the widest row stays short.
C5_RowsWithinColumns ==
    Returned =>
        \A i \in 1..Len(ListRows) :
            /\ Len(ListRows[i].cells) <= frame.number_of_columns
            /\ Filled(ListRows[i].cells)

C5_Witness ==
    /\ Returned
    /\ frame.number_of_columns = 2
    /\ \E i \in 1..Len(ListRows) : Len(ListRows[i].cells) = 1
    /\ \E i \in 1..Len(ListRows) :
           /\ ListRows[i].cells[1].colspan = 2
           /\ Len(ListRows[i].cells) = 2

\* no cell of the table spans rows
NoRowspan(tb) ==
    \A r \in {tb.headers[i] : i \in 1..Len(tb.headers)}
             \cup {tb.rows[i] : i \in 1..Len(tb.rows)} :
        \A i \in 1..Len(r.cells) : r.cells[i].rowspan = 1

\* the row is a list of cells that span one column each
Plain(row) ==
    row.kind = "list" /\ \A i \in 1..Len(row.cells) : row.cells[i].colspan = 1

\* the line breaks of a cell
Breaks(cell) == str_count(cell.text, NL)

\* the most line breaks a cell of the row has
MostBreaks(row) == max(<<0>> \o [i \in 1..Len(row.cells) |-> Breaks(row.cells[i])])

\* the normalized rows made of the row at the key, in order
YieldedAt(key) == SelectSeq(frame.rows, LAMBDA r : r.key = key)

\* the normalized rows made of the row at the key follow one another
Consecutive(key) ==
    \A i, j \in 1..Len(frame.rows) :
        (frame.rows[i].key = key /\ frame.rows[j].key = key)
            => \A m \in i..j : frame.rows[m].key = key

\* C6 as claimed: a cell with k line breaks in a row of cells with rowspan 1
\* makes k+1 consecutive rows of its row: its fragments in its column, from
\* the second row on blank cells in every other column.
C6_FragmentRowsClaimed ==
    [][(Returned' /\ ~tables[call'.t].horizontal /\ NoRowspan(tables[call'.t]))
           => \A key \in 0..(Len(vertical_rows(tables[call'.t])) - 1) :
                  LET row == vertical_rows(tables[call'.t])[key + 1]
                  IN  Plain(row) =>
                          \A c \in 1..Len(row.cells) :
                              Breaks(row.cells[c]) >= 1 =>
                                  /\ Len(YieldedAt(key)') = Breaks(row.cells[c]) + 1
                                  /\ Consecutive(key)'
                                  /\ \A j \in 1..Len(YieldedAt(key)') :
                                         /\ j <= Breaks(row.cells[c]) + 1
                                         /\ remove_format(YieldedAt(key)'[j].cells[c].text)
                                              = remove_format(split(row.cells[c].text)[j])
                                         /\ \A d \in 1..Len(row.cells) :
                                                (j > 1 /\ d # c) =>
                                                    YieldedAt(key)'[j].cells[d].text = <<>>]_vars

\* C6: a row of cells with rowspan 1, the most line breaks in a cell being
\* k, is normalized into k+1 consecutive rows: the j-th of them carries in
\* every column the j-th fragment of that column's cell as it is shown, and
\* a blank cell where the cell has fewer fragments.
C6_FragmentRows ==
    [][(Returned' /\ ~tables[call'.t].horizontal /\ NoRowspan(tables[call'.t]))
           => \A key \in 0..(Len(vertical_rows(tables[call'.t])) - 1) :
                  LET row == vertical_rows(tables[call'.t])[key + 1]
                  IN  Plain(row) =>
                          /\ Len(YieldedAt(key)') = MostBreaks(row) + 1
                          /\ Consecutive(key)'
                          /\ \A j \in 1..Len(YieldedAt(key)') :
                                 /\ YieldedAt(key)'[j].line_key = j - 1
                                 /\ \A d \in 1..Len(row.cells) :
                                        remove_format(YieldedAt(key)'[j].cells[d].text)
                                          = IF j <= Breaks(row.cells[d]) + 1
                                            THEN remove_format(split(row.cells[d].text)[j])
                                            ELSE <<>>]_vars

C6_Witness ==
    /\ Returned
    /\ \E key \in 0..3 :
           /\ Len(YieldedAt(key)) = 3
           /\ YieldedAt(key)[2].cells[1].text = <<CloseTag, "b">>
           /\ YieldedAt(key)[3].cells[1].text = <<>>
           /\ YieldedAt(key)[3].cells[2].text = <<CloseTag, "e">>

\* the most recent call was set_column_max_width(c, m) and this step is the
\* render() of the same table, which returns
RenderAfterMaxWidth ==
    /\ call.op = "set_column_max_width"
    /\ Returned'
    /\ call'.t = call.t

\* the widest text shown in column c of the normalized rows
Measured(c) ==
    max(<<0>> \o [i \in 1..Len(ListRows) |->
                     IF c < Len(ListRows[i].cells)
                     THEN Shown(ListRows[i].cells[c + 1].text) ELSE 0])

\* C7: in the render() after set_column_max_width(c, m), column c is resolved
\* to min(m, max(measured, floor)) plus the padding of the cell format, floor
\* being the width set_column_width gave the column, or 0.
C7_CeilingWins ==
    [][\A c \in Columns, m \in WidthInputs :
           (/\ RenderAfterMaxWidth
            /\ call.arg = <<c, m>>
            /\ c < frame'.number_of_columns
            /\ \A i \in 1..Len(ListRows') : Plain(ListRows'[i]))
               => \E floor \in {0} \cup WidthInputs :
                      tables'[call.t].effective_column_widths[c]
                        = Min(m, Max(Measured(c)', floor))
                          + format_len(heap[tables[call.t].style].cell_row_content_format)
                          - 2]_vars

\* C8: in the render() after set_column_max_width(c, m), a row whose cell in
\* column c is shown d > m characters wide is normalized into ceil(d / m)
\* rows that carry a fragment of the cell in column c, none wider than m.
C8_WrappedFragments ==
    [][(/\ RenderAfterMaxWidth
        /\ ~tables[call.t].horizontal
        /\ NoRowspan(tables[call.t]))
           => \A key \in 0..(Len(vertical_rows(tables[call.t])) - 1),
                 c \in Columns, m \in WidthInputs :
                  LET row == vertical_rows(tables[call.t])[key + 1]
                  IN  (/\ call.arg = <<c, m>>
                       /\ Plain(row)
                       /\ MostBreaks(row) = 0
                       /\ c < Len(row.cells)
                       /\ Shown(row.cells[c + 1].text) > m)
                          => /\ Cardinality(
                                    {j \in 1..Len(YieldedAt(key)') :
                                        Shown(YieldedAt(key)'[j].cells[c + 1].text) > 0})
                                  = ceil_div(Shown(row.cells[c + 1].text), m)
                             /\ \A j \in 1..Len(YieldedAt(key)') :
                                    Shown(YieldedAt(key)'[j].cells[c + 1].text) <= m]_vars

\* the table has a body row with no cell at a column index the table has:
\* at the index of a header of a horizontal table, at a column otherwise
ShortRow(tb) ==
    \E i \in 1..Len(tb.rows) :
        /\ tb.rows[i].kind = "list"
        /\ IF tb.horizontal
           THEN tb.headers # <<>> /\ Len(tb.rows[i].cells) < Len(tb.headers[1].cells)
           ELSE get_number_of_columns(tb.rows[i].cells)
                  < calculate_number_of_columns(vertical_rows(tb))

\* what the j-th content line shows in column c, in a style whose column
\* separators are one character wide, for a row of cells that span one column
ColumnText(j, c) ==
    SubSeq(remove_format(RowLines[j].text),
           c + 2 + SumWidths(0, c - 1),
           c + 1 + SumWidths(0, c))

\* C11: a render() of a table with a body row that has no cell at some
\* column index returns, and the line of a row shows only padding in every
\* column the row has no cell at.
C11_MissingCellsBlank ==
    [][(call'.op = "render" /\ ShortRow(tables[call'.t]))
           => /\ call'.exc = NoExc
              /\ \A j \in 1..Len(DrawnRows') :
                     Plain(DrawnRows'[j]) =>
                         \A c \in Len(DrawnRows'[j].cells)..(frame'.number_of_columns - 1) :
                             /\ ColumnText(j, c)' # <<>>
                             /\ \A k \in 1..Len(ColumnText(j, c)') :
                                    ColumnText(j, c)'[k] = " "]_vars

\* C12: a render() that raises has written no line.
C12_NoPartialOutput ==
    (call.op = "render" /\ call.exc # NoExc) => out = <<>>

\* C13: after a render() that returned, the table holds no effective column
\* width.
C13_EffectiveWidthsCleared ==
    Returned => DOMAIN tables[call.t].effective_column_widths = {}

\* What column c measures of a normalized row: the width shown of the cell
\* at c; where a TableCell that spans k columns covers c, the column's share
\* of its text, the text being cut into pieces of ceil(width / k) characters
\* that are dealt to the columns from the cell's own on.
ColumnShare(cells, c) ==
    LET owners == {i \in 0..c :
                      /\ i < Len(cells)
                      /\ is_TableCell(cells[i + 1])
                      /\ i + cells[i + 1].colspan > c
                      /\ Shown(cells[i + 1].text) > 0}
        share(i) ==
            Max(0, Min(ceil_div(Shown(cells[i + 1].text), cells[i + 1].colspan),
                       Shown(cells[i + 1].text)
                         - (c - i) * ceil_div(Shown(cells[i + 1].text),
                                              cells[i + 1].colspan)))
    IN  IF owners # {} THEN share(CHOOSE i \in owners : \A j \in owners : i <= j)
        ELSE IF c < Len(cells) THEN Shown(cells[c + 1].text)
        ELSE 0

\* the most column c measures of a normalized row that is not a separator
MeasuredShare(c) ==
    max(<<0>> \o [i \in 1..Len(ListRows) |-> ColumnShare(ListRows[i].cells, c)])

\* C14: a render() of a table whose column c has the width floor f, and no
\* maximum width, resolves the column to max(measured, f) plus the length
\* of the cell content format less 2.
C14_FloorWidth ==
    [][\A c \in Columns, f \in WidthInputs :
           (/\ Returned'
            /\ c \in DOMAIN tables[call'.t].column_widths
            /\ tables[call'.t].column_widths[c] = f
            /\ c < frame'.number_of_columns)
               => tables'[call'.t].effective_column_widths[c]
                    = Max(MeasuredShare(c)', f)
                      + format_len(heap[tables[call'.t].style].cell_row_content_format)
                      - 2]_vars

\* the floor 3 has widened column 0, which measures 2 characters of a cell
\* that spans two columns
C14_Witness ==
    /\ Returned
    /\ MeasuredShare(0) = 2
    /\ tables[call.t].effective_column_widths[0] = 5
    /\ \E i \in 1..Len(ListRows) : ListRows[i].cells[1].colspan = 2

\* What is compared of a cell and of a row: a cell's text and spans; a row's
\* kind, its cells, and whether the normalizer made it.
CellShape(cell) ==
    [text |-> cell.text, colspan |-> cell.colspan, rowspan |-> cell.rowspan]
RowShape(row) ==
    [kind |-> row.kind,
     new |-> row.kind = "list" /\ row.src = NewSrc,
     cells |-> [i \in 1..Len(row.cells) |-> CellShape(row.cells[i])]]

\* the columns a row of cell shapes takes
ShapeColumns(cells) ==
    LET RECURSIVE sum(_)
        sum(i) == IF i > Len(cells) THEN 0 ELSE cells[i].colspan + sum(i + 1)
    IN  sum(1)

\* the 0-based positions of the cells of a row that span rows
SpanPositions(row) ==
    {i \in 0..(Len(row.cells) - 1) : row.cells[i + 1].rowspan > 1}

\* C15, the rows beneath one cell that spans r = last + 1 rows, at position
\* c of the row at `line`, k columns wide: for d = 1..last, a blank cell is
\* put at position c of the row at line + d if that row is a list and has
\* room for k more columns; otherwise a blank row shaped like the row above
\* is put in at line + d.
RECURSIVE PlaceBeneath(_, _, _, _, _, _, _)
PlaceBeneath(rows, line, c, k, d, last, n) ==
    IF d > last THEN rows
    ELSE LET key == line + d
             blank == [text |-> <<>>, colspan |-> k, rowspan |-> 1]
             fits == /\ key < Len(rows)
                     /\ rows[key + 1].kind = "list"
                     /\ ShapeColumns(rows[key + 1].cells) + k <= n
             above == rows[key].cells
             blank_row == [kind |-> "list", new |-> TRUE,
                           cells |-> [i \in 1..Len(above) |->
                                         [text |-> <<>>,
                                          colspan |-> above[i].colspan,
                                          rowspan |-> 1]]]
         IN  PlaceBeneath(
                 IF fits
                 THEN [rows EXCEPT ![key + 1].cells =
                          SubSeq(@, 1, Min(c, Len(@))) \o <<blank>>
                          \o SubSeq(@, Min(c, Len(@)) + 1, Len(@))]
                 ELSE SubSeq(rows, 1, key) \o <<blank_row>>
                      \o SubSeq(rows, key + 1, Len(rows)),
                 line, c, k, d + 1, last, n)

\* C15, row after row from the top: the rows beneath every cell that spans
\* rows, in a table whose rows have at most one such cell each
RECURSIVE PlaceAll(_, _, _)
PlaceAll(rows, line, n) ==
    IF line >= Len(rows) THEN rows
    ELSE IF rows[line + 1].kind # "list" \/ SpanPositions(rows[line + 1]) = {}
    THEN PlaceAll(rows, line + 1, n)
    ELSE LET c == CHOOSE i \in SpanPositions(rows[line + 1]) : TRUE
             cell == rows[line + 1].cells[c + 1]
         IN  PlaceAll(PlaceBeneath(rows, line, c, cell.colspan, 1,
                                   cell.rowspan - 1, n),
                      line + 1, n)

\* no cell of the table has a line break, no row has two cells that span rows
NoBreaksOneSpan(rows) ==
    \A i \in 1..Len(rows) :
        /\ \A j \in 1..Len(rows[i].cells) : ~contains(rows[i].cells[j].text, NL)
        /\ Cardinality(SpanPositions(rows[i])) <= 1

\* the cells of a row that show text, in order
TextCells(cells) == SelectSeq(cells, LAMBDA cell : cell.text # <<>>)

\* C15: in a table without line breaks, every cell that spans r > 1 rows
\* gets a blank cell of its colspan in each of the r - 1 rows beneath it,
\* put into the row that is there if that row is a list with room for it,
\* and into a new blank row put in at that index otherwise; the rows of
\* the table keep their cells, and no row takes more than number_of_columns
\* columns.
C15_RowspanRows ==
    [][(/\ Returned'
        /\ ~tables[call'.t].horizontal
        /\ NoBreaksOneSpan(vertical_rows(tables[call'.t])))
           => LET given == vertical_rows(tables[call'.t])
                  n == frame'.number_of_columns
              IN  /\ [i \in 1..Len(frame'.local) |-> RowShape(frame'.local[i])]
                       = PlaceAll([i \in 1..Len(given) |->
                                      [RowShape(given[i]) EXCEPT !.new = FALSE]],
                                  0, n)
                  /\ \A i \in 1..Len(frame'.local) :
                         get_number_of_columns(frame'.local[i].cells) <= n
                  /\ \A i \in 1..Len(given) :
                         given[i].kind = "list" =>
                             \E j \in 1..Len(frame'.local) :
                                 /\ frame'.local[j].src = given[i].src
                                 /\ TextCells(frame'.local[j].cells)
                                      = TextCells(given[i].cells)]_vars

\* a cell that spans three rows, the short row beneath it with a blank cell
\* put in front, and a new blank row beneath that
C15_Witness ==
    /\ Returned
    /\ \E p \in 1..(Len(frame.local) - 2) :
           /\ frame.local[p].kind = "list"
           /\ frame.local[p].cells[1].rowspan = 3
           /\ frame.local[p + 1].src.from = "rows"
           /\ Len(frame.local[p + 1].cells) = 2
           /\ frame.local[p + 1].cells[1].text = <<>>
           /\ frame.local[p + 1].cells[2].text = <<"c">>
           /\ frame.local[p + 2].kind = "list"
           /\ frame.local[p + 2].src = NewSrc
           /\ Len(frame.local) = p + 2

\* the rows of the local list that came in with it: all but the list rows
\* the normalizer made
OriginRows(rows) ==
    SelectSeq(rows, LAMBDA r : ~(r.kind = "list" /\ r.src = NewSrc))

\* the cells of a row whose text splits into lines of its own: the cells
\* that span one row
BrokenCells(cells, j) ==
    SelectSeq(cells, LAMBDA cell : cell.rowspan <= 1 /\ Len(split(cell.text)) > j)

\* fragment j (0-based) of every cell of the row that has one, as shown
Fragments(cells, j) ==
    [i \in 1..Len(BrokenCells(cells, j)) |->
        remove_format(split(BrokenCells(cells, j)[i].text)[j + 1])]

\* the texts a row shows, cell after cell, blank cells left out
ShownTexts(cells) ==
    [i \in 1..Len(TextCells(cells)) |-> remove_format(TextCells(cells)[i].text)]

\* the cells the row at `key` of the local list had when render() was
\* called: none for a row the normalizer made
GivenCells(given, row) ==
    IF row.kind = "list" /\ row.src # NewSrc
    THEN given[CHOOSE i \in 1..Len(given) : given[i].src = row.src].cells
    ELSE <<>>

\* C16: the normalized list holds the rows render() was given in their
\* order; the rows yielded go through that list from top to bottom, and
\* each row is followed at once by its sibling rows, fragment after
\* fragment (sibling j shows fragment j of the cells that have one), before
\* the next row of the list, rows made by rowspan expansion included.
C16_OrderKept ==
    [][(Returned' /\ ~tables[call'.t].horizontal)
           => LET given == local_rows(tables[call'.t])
                  local == frame'.local
                  yielded == frame'.rows
              IN  /\ [i \in 1..Len(OriginRows(local)) |->
                          <<OriginRows(local)[i].kind, OriginRows(local)[i].src>>]
                       = [i \in 1..Len(given) |-> <<given[i].kind, given[i].src>>]
                  /\ yielded[1].key = 0 /\ yielded[1].line_key = 0
                  /\ yielded[Len(yielded)].key = Len(local) - 1
                  /\ \A p \in 1..(Len(yielded) - 1) :
                         \/ /\ yielded[p + 1].key = yielded[p].key
                            /\ yielded[p + 1].line_key = yielded[p].line_key + 1
                         \/ /\ yielded[p + 1].key = yielded[p].key + 1
                            /\ yielded[p + 1].line_key = 0
                  /\ \A p \in 1..Len(yielded) :
                         LET row == local[yielded[p].key + 1]
                             j == yielded[p].line_key
                         IN  /\ j = 0 => /\ yielded[p].kind = row.kind
                                         /\ TextCells(yielded[p].cells)
                                              = TextCells(row.cells)
                             /\ j > 0 => ShownTexts(yielded[p].cells)
                                            = Fragments(GivenCells(given, row), j)
                             /\ Fragments(GivenCells(given, row), j + 1) # <<>>
                                    => /\ p < Len(yielded)
                                       /\ yielded[p + 1].key = yielded[p].key]_vars

\* two rows with a sibling row each, and between them a row that rowspan
\* expansion of the first put into the list
C16_Witness ==
    /\ Returned
    /\ \E p \in 1..Len(frame.rows) : \E q \in 1..Len(frame.rows) :
           /\ p + 1 < q
           /\ frame.rows[p].line_key = 1
           /\ frame.rows[q].line_key = 1
           /\ frame.local[frame.rows[p + 1].key + 1].kind = "list"
           /\ frame.local[frame.rows[p + 1].key + 1].src = NewSrc

\* the table of the most recent render() as that render saw it: the number
\* of columns it counted, the style values
RenderedView ==
    TableView([tables[call.t] EXCEPT !.number_of_columns = frame.number_of_columns],
              heap)

\* the lines of the output that carry a title: the separators above the
\* header rows, the separator at the bottom
TitledLines ==
    {i \in 1..Len(out) :
        \/ out[i].kind = "TOP" /\ tables[call.t].header_title # NoTitle
        \/ out[i].kind = "BOTTOM" /\ tables[call.t].footer_title # NoTitle}

\* C17: a separator line with a title is as wide, as shown, as the same
\* separator line without the title.
C17_TitledSeparatorWidth ==
    Returned =>
        \A i \in TitledLines :
            Shown(out[i].text)
              = Shown(row_separator_line(
                          IF out[i].kind = "TOP" THEN SEPARATOR_TOP
                          ELSE SEPARATOR_BOTTOM,
                          NoTitle, <<>>, RenderedView).text)

\* what the caller configured of a table
Configured(tb) ==
    [headers |-> tb.headers,
     rows |-> tb.rows,
     column_widths |-> tb.column_widths,
     column_max_widths |-> tb.column_max_widths,
     column_styles |-> tb.column_styles,
     header_title |-> tb.header_title,
     footer_title |-> tb.footer_title,
     horizontal |-> tb.horizontal]

\* C19: a render() that returns leaves the table's headers, rows, width
\* floors, max widths, column styles, titles and horizontal flag as they
\* were when it was called.
C19_RenderKeepsConfigured ==
    [][Returned' => Configured(tables'[call'.t]) = Configured(tables[call'.t])]_vars

\* the width of the table of the most recent render(): its effective column
\* widths and one glyph for every column boundary and outer edge
TableWidth ==
    LET RECURSIVE sum(_)
        sum(c) == IF c >= frame.number_of_columns THEN 0
                  ELSE tables[call.t].effective_column_widths[c] + sum(c + 1)
    IN  sum(0) + frame.number_of_columns + 1

\* C20: every line a render() of a table of the default style wrote is as
\* wide, as shown, as the table: the effective column widths and one glyph
\* for every column boundary and outer edge.
C20_LinesSameWidth ==
    Returned => \A i \in 1..Len(out) : Shown(out[i].text) = TableWidth

\* render() is in the loop of _build_table_rows
Normalizing == call.op = "_build_table_rows"

\* the rows a cell has still to get beneath it: nb_lines of lines 479-486
PendingLines(cell) ==
    IF cell.rowspan > 1
    THEN Max(cell.rowspan - 1, str_count(cell.text, NL))
    ELSE 0

\* the passes of the loop that are left at most: one for every row from
\* row_key on, and one for every row such a row may still put into the list
PassesLeft ==
    LET RECURSIVE cells(_, _)
        cells(row, j) == IF j > Len(row) THEN 0
                         ELSE PendingLines(row[j]) + cells(row, j + 1)
        RECURSIVE rows(_)
        rows(i) == IF i > Len(frame.local) THEN 0
                   ELSE 1 + cells(frame.local[i].cells, 1) + rows(i + 1)
    IN  rows(frame.row_key + 1)

\* C18: every pass of the normalizing loop leaves fewer passes to go (the
\* rows it puts into the list have cells of rowspan 1 only), so the loop
\* ends, and when it has ended render() returns.
C18_NormalizationReturns ==
    [][Normalizing => IF Normalizing' THEN PassesLeft' < PassesLeft
                      ELSE Returned']_vars

====
